---- MODULE Spec2Model ----
(***************************************************************************)
(* Model of tools/test_net.py: the multi-pass (test-time augmentation)     *)
(* inference loop of main(), with crop_center and                          *)
(* prepare_test_dataloaders.                                               *)
(*                                                                         *)
(* Arrays are sequences: a [C,H,W] array a is indexed a[c][y][x], 1-based. *)
(* Floating point values are exact multiples of 1/One, One standing for    *)
(* 1.0: the unit is fine enough to hold the float32 rounding of a weight,  *)
(* so that the sums the program forms are held exactly. NaN is a separate  *)
(* value that propagates through the arithmetic.                           *)
(* Paths are sequences of path components.                                 *)
(*                                                                         *)
(* The collaborators that main() calls are inputs of the model:            *)
(*  - the dataloaders yield aligned batches of equal size (they are built  *)
(*    from one config and one dataset); the path a dataloader reports for  *)
(*    a sample may differ from the path of the first dataloader;           *)
(*  - image tensors hold raw, non-negative intensities, so a pixel whose   *)
(*    channel sum is zero is a black pixel;                                *)
(*  - the model returns a map of the spatial size of its input, with any   *)
(*    number of channels and any values, NaN included.                     *)
(* The type of pred * weights[k] depends on the NumPy the program runs on  *)
(* (pred is a float32 array, the weight a float64 scalar): float32 under   *)
(* value-based promotion (NumPy 1.x), float64 under NEP 50 (NumPy 2.x).    *)
(* The program pins neither, so a run starts under either.                 *)
(* Each step of the inner loop of main() is an action, so that the order   *)
(* of masking, un-flipping, cropping, adding and the path check is         *)
(* visible in the behaviours.                                              *)
(***************************************************************************)
EXTENDS Integers, Sequences, FiniteSets, TLC

(* ------------------------------ bounds -------------------------------- *)

\* Spatial size of the accumulation buffer. The program hard-codes 1300
\* (test_net.py:174); the model uses a small grid of the same role.
OutSize == 2
\* Largest number of aligned batches the dataloaders yield in a run.
MaxBatches == 2
\* Largest number of samples in a batch.
MaxBatchSize == 2

(* ------------------------------ numbers ------------------------------- *)

\* float32 has a 24-bit significand: from 1/4 to 1/2 its values are the
\* multiples of 1/F32Grid, and 1/2 and 1 are multiples of it too
F32Grid == 33554432
\* 1.0 in fixed-point units: the unit is 1/(6 * 2^25), so that 1/2, 1/3,
\* the float32 nearest to 1/3 and their products with 1.0 and 0.5 are whole
\* numbers of units
One == 6 * F32Grid
\* float NaN (a model output that is NaN stays NaN through sigmoid, the
\* weighting and the accumulation).
NaN == -1

IsNaN(v) == v = NaN

\* torch.sigmoid on the logits the model draws: -inf, 0, +inf and NaN.
Logits == {"ninf", "zero", "pinf", "nan"}
Sigmoid(l) ==
    CASE l = "ninf" -> 0
      [] l = "zero" -> One \div 2
      [] l = "pinf" -> One
      [] OTHER      -> NaN

\* the type promotion of the NumPy the program runs on
VARIABLE numpy_promotion

\* array_float32 * scalar_float64 is float32 under value-based promotion
\* (NumPy 1.x) and float64 under NEP 50 (NumPy 2.x)
NumpyPromotions == {"value_based", "nep50"}

\* np.float32(w) of a weight w = num/den in [1/4, 1]: the nearest multiple
\* of 1/F32Grid
Float32(wgt) ==
    <<(2 * wgt[1] * F32Grid + wgt[2]) \div (2 * wgt[2]), F32Grid>>

\* v * num / den, the quotient taken first to stay within the integers of
\* the checker
Times(v, wgt) ==
    (v \div wgt[2]) * wgt[1] + ((v % wgt[2]) * wgt[1]) \div wgt[2]

\* float product of a float32 value and a float64 weight <<num, den>>: the
\* weight is cast to float32 first under value-based promotion
Mul(v, wgt) ==
    IF IsNaN(v) THEN NaN
    ELSE Times(v, IF numpy_promotion = "value_based"
                  THEN Float32(wgt) ELSE wgt)
\* float sum
Add(a, b) == IF IsNaN(a) \/ IsNaN(b) THEN NaN ELSE a + b

(* ------------------------------ arrays -------------------------------- *)

Shape(a) == <<Len(a), Len(a[1]), Len(a[1][1])>>

\* np.zeros(shape=[c, h, w])
Zeros(c, h, w) == [ci \in 1..c |-> [y \in 1..h |-> [x \in 1..w |-> 0]]]

RECURSIVE SumSeq(_)
SumSeq(s) == IF s = <<>> THEN 0 ELSE s[1] + SumSeq(Tail(s))

\* np.sum(image, axis=0) == 0  ->  boolean [H, W]
NodataMask(image) ==
    [y \in 1..Len(image[1]) |->
        [x \in 1..Len(image[1][1]) |->
            SumSeq([c \in 1..Len(image) |-> image[c][y][x]]) = 0]]

\* mutant of MaskAnd: the two post masks combined with OR
MaskOr(m1, m2) ==
    [y \in 1..Len(m1) |-> [x \in 1..Len(m1[1]) |-> m1[y][x] \/ m2[y][x]]]

\* nodata_mask & (np.sum(image, axis=0) == 0)
MaskAnd(m1, m2) ==
    [y \in 1..Len(m1) |-> [x \in 1..Len(m1[1]) |-> m1[y][x] /\ m2[y][x]]]

\* np.zeros(shape=[h, w], dtype=bool)
FalseMask(h, w) == [y \in 1..h |-> [x \in 1..w |-> FALSE]]

\* boolean indexing needs the mask to have the shape of the indexed plane
MaskFits(plane, mask) ==
    /\ Len(mask) = Len(plane)
    /\ Len(mask[1]) = Len(plane[1])

\* plane[mask] = 0.0
ZeroPlane(plane, mask) ==
    [y \in 1..Len(plane) |->
        [x \in 1..Len(plane[1]) |-> IF mask[y][x] THEN 0 ELSE plane[y][x]]]

\* pred[:, nodata_mask] = 0.0
MaskAllChannels(pred, mask) ==
    [c \in 1..Len(pred) |-> ZeroPlane(pred[c], mask)]

\* pred[:, ::-1, :]
VFlip(a) ==
    [c \in 1..Len(a) |->
        [y \in 1..Len(a[c]) |-> a[c][Len(a[c]) + 1 - y]]]

\* pred[:, :, ::-1]
HFlip(a) ==
    [c \in 1..Len(a) |->
        [y \in 1..Len(a[c]) |->
            [x \in 1..Len(a[c][y]) |-> a[c][y][Len(a[c][y]) + 1 - x]]]]

(* ----------------------------- crop_center ---------------------------- *)

\* the two assertions of crop_center
CropFits(pred, crop_wh) ==
    /\ Len(pred[1][1]) >= crop_wh[1]
    /\ Len(pred[1]) >= crop_wh[2]

\* mutant of CropLeft: the whole margin on the left
CropLeftWholeMargin(w, crop_w) == w - crop_w
CropLeft(w, crop_w) == (w - crop_w) \div 2
CropTop(h, crop_h) == (h - crop_h) \div 2

\* pred[:, top:bottom, left:right]
crop_center(pred, crop_wh) ==
    LET h == Len(pred[1])
        w == Len(pred[1][1])
        crop_w == crop_wh[1]
        crop_h == crop_wh[2]
        left == CropLeft(w, crop_w)
        right == crop_w + left
        top == CropTop(h, crop_h)
        bottom == crop_h + top
    IN  [c \in 1..Len(pred) |->
            [y \in 1..(bottom - top) |->
                SubSeq(pred[c][top + y], left + 1, right)]]

(* ------------------------------ paths --------------------------------- *)

\* os.path.dirname / os.path.basename on component sequences
Dirname(p) == IF p = <<>> THEN <<>> ELSE SubSeq(p, 1, Len(p) - 1)
Basename(p) == IF p = <<>> THEN "" ELSE p[Len(p)]
\* os.path.join(dir, name): an empty name adds no component
Join(dir, name) == IF name = "" THEN dir ELSE Append(dir, name)

\* out_root of the run (args.artifact_dir / preds / exp_<id>)
OutRoot == <<"wdata", "preds", "exp_00001">>

Aoi(pre_path) == Basename(Dirname(Dirname(pre_path)))
OutDir(pre_path) == Join(OutRoot, Aoi(pre_path))
\* the destination derived from a pre-image path
OutputPath(pre_path) == Join(OutDir(pre_path), Basename(pre_path))

(* ------------------------- class schema ------------------------------- *)

\* the class names whose channels are masked by the post-image nodata mask
PostClasses == {"flood_building", "flood_road", "flood"}

(* --------------------- prepare_test_dataloaders ----------------------- *)

\* weights /= weights.sum(): each weight becomes the fraction raw / sum
Normalize(raw) == [k \in 1..Len(raw) |-> <<raw[k], SumSeq(raw)>>]

VariantHFlags(hflip, vflip) ==
    <<FALSE>> \o (IF hflip THEN <<TRUE>> ELSE <<>>)
              \o (IF vflip THEN <<FALSE>> ELSE <<>>)
VariantVFlags(hflip, vflip) ==
    <<FALSE>> \o (IF hflip THEN <<FALSE>> ELSE <<>>)
              \o (IF vflip THEN <<TRUE>> ELSE <<>>)
VariantWeights(hflip, vflip) ==
    Normalize(<<1>> \o (IF hflip THEN <<1>> ELSE <<>>)
                    \o (IF vflip THEN <<1>> ELSE <<>>))

(* ------------------------------ state --------------------------------- *)

VARIABLES
    tta_hflip,            \* args.tta_hflip
    tta_vflip,            \* args.tta_vflip
    n_input_post_images,  \* config.Model.n_input_post_images
    classes,              \* get_flatten_classes(config)
    dataset,              \* what the dataloaders and the model yield:
                          \* a sequence of batches, each a sequence of samples
    pc,                   \* position of main()
    error,                \* the exception that ended the run, "" when none
    dirs,                 \* directories created by os.makedirs
    meta_written,         \* meta.json has been dumped
    flags_hflip,          \* per dataloader
    flags_vflip,          \* per dataloader
    weights,              \* per dataloader, <<num, den>>
    batch_no,             \* number of batches taken from zip(*test_dataloaders)
    output_paths,         \* per sample of the batch, None before variant 0
    preds_averaged,       \* per sample of the batch, [C, OutSize, OutSize]
    dataloader_idx,       \* 0-based, as in the source
    batch_preds,          \* sigmoid(model(...)) of the current variant
    i,                    \* 0-based sample index of the inner loop
    pred,                 \* the local pred of the inner loop
    emit_idx,             \* 0-based position of the output loop
    contrib,              \* history: per sample, the variants added so far
                          \*   with the rectified map each one added
    writes,               \* history: the calls of save_array_as_geotiff
    n_forward             \* history: number of model forward passes

cfgvars == <<numpy_promotion, tta_hflip, tta_vflip, n_input_post_images,
             classes, dataset>>
setupvars == <<dirs, meta_written, flags_hflip, flags_vflip, weights>>
batchvars == <<batch_no, output_paths, preds_averaged, dataloader_idx>>
loopvars == <<batch_preds, i, pred, emit_idx>>
histvars == <<contrib, writes, n_forward>>
vars == <<cfgvars, pc, error, setupvars, batchvars, loopvars, histvars>>

\* Python None for output_paths entries (a derived path is never empty)
None == <<>>

(* -------------------- dataloaders and model (inputs) ------------------ *)

CurBatch == dataset[batch_no]
BatchSize == Len(CurBatch)
NumLoaders == Len(flags_hflip)

\* the transform of dataloader k (0-based): the tta_hflip loader flips the
\* image horizontally, the tta_vflip loader vertically
LoaderFlip(a, k) ==
    IF flags_hflip[k + 1] THEN HFlip(a)
    ELSE IF flags_vflip[k + 1] THEN VFlip(a)
    ELSE a

\* batch['image'][j], batch['image_post_a'][j], batch['image_post_b'][j]
Image(j, k) == LoaderFlip(CurBatch[j].image, k)
ImagePostA(j, k) == LoaderFlip(CurBatch[j].post_a, k)
ImagePostB(j, k) == LoaderFlip(CurBatch[j].post_b, k)
\* batch['pre_path'][j], batch['original_height'][j], ...
PrePath(j, k) == CurBatch[j].pre_paths[k + 1]
OrigH(j) == CurBatch[j].orig_h
OrigW(j) == CurBatch[j].orig_w

\* torch.sigmoid(model(images, images_post_a, images_post_b))[j]
ModelPred(j, k) ==
    LET raw == CurBatch[j].logits[k + 1]
    IN  [c \in 1..Len(raw) |->
            [y \in 1..Len(raw[c]) |->
                [x \in 1..Len(raw[c][y]) |-> Sigmoid(raw[c][y][x])]]]

(* ------------------------------ main ---------------------------------- *)

Abort(what) ==
    /\ pc' = "aborted"
    /\ error' = what

\* lines 149-165: output root, meta.json, prepare_test_dataloaders
Setup ==
    /\ pc = "start"
    /\ dirs' = dirs \cup {OutRoot}
    /\ meta_written' = TRUE
    /\ flags_hflip' = VariantHFlags(tta_hflip, tta_vflip)
    /\ flags_vflip' = VariantVFlags(tta_hflip, tta_vflip)
    /\ weights' = VariantWeights(tta_hflip, tta_vflip)
    /\ pc' = "fetch"
    /\ UNCHANGED <<cfgvars, error, batchvars, loopvars, histvars>>

\* mutant of AllocBuffer: a buffer one pixel larger than the output size
AllocBufferLarger(batch_size, n_classes) ==
    [j \in 1..batch_size |-> Zeros(n_classes, OutSize + 1, OutSize + 1)]

\* np.zeros(shape=[batch_size, len(get_flatten_classes(config)), 1300, 1300])
AllocBuffer(batch_size, n_classes) ==
    [j \in 1..batch_size |-> Zeros(n_classes, OutSize, OutSize)]

\* lines 167-175: the next aligned batch of every dataloader, fresh buffers
NextBatch ==
    /\ pc = "fetch"
    /\ IF batch_no < Len(dataset)
       THEN LET batch_size == Len(dataset[batch_no + 1])
            IN  /\ batch_no' = batch_no + 1
                /\ output_paths' = [j \in 1..batch_size |-> None]
                /\ preds_averaged' = AllocBuffer(batch_size, Len(classes))
                /\ dataloader_idx' = 0
                /\ contrib' = [j \in 1..batch_size |-> <<>>]
                /\ pc' = "load"
       ELSE /\ pc' = "done"
            /\ UNCHANGED <<batchvars, contrib>>
    /\ UNCHANGED <<cfgvars, error, setupvars, loopvars, writes, n_forward>>

\* mutant of ValidPostCount: three post images accepted
ValidPostCountUpTo3(n) == n \in {0, 1, 2, 3}

\* assert n_input_post_images in [0, 1, 2]
ValidPostCount(n) == n \in {0, 1, 2}

\* lines 178-191: the tensors of dataloader dataloader_idx
LoadBatch ==
    /\ pc = "load"
    /\ IF ValidPostCount(n_input_post_images)
       THEN pc' = "forward" /\ UNCHANGED error
       ELSE Abort("AssertionError: n_input_post_images")
    /\ UNCHANGED <<cfgvars, setupvars, batchvars, loopvars, histvars>>

\* lines 193-196: forward pass and sigmoid, on the host
Forward ==
    /\ pc = "forward"
    /\ batch_preds' = [j \in 1..BatchSize |-> ModelPred(j, dataloader_idx)]
    /\ n_forward' = n_forward + 1
    /\ i' = 0
    /\ pc' = "mask_pre"
    /\ UNCHANGED <<cfgvars, error, setupvars, batchvars, pred, emit_idx,
                   contrib, writes>>

\* lines 199-207: pred = 0 on the black pixels of the pre-image
MaskPre ==
    /\ pc = "mask_pre"
    /\ LET p == batch_preds[i + 1]
           nodata_mask == NodataMask(Image(i + 1, dataloader_idx))
       IN  IF MaskFits(p[1], nodata_mask)
           THEN /\ pred' = MaskAllChannels(p, nodata_mask)
                /\ pc' = "mask_post"
                /\ UNCHANGED error
           ELSE /\ Abort("IndexError: pre nodata mask")
                /\ UNCHANGED pred
    /\ UNCHANGED <<cfgvars, setupvars, batchvars, batch_preds, i, emit_idx,
                   histvars>>

\* lines 210-216: the nodata mask of the post images
PostNodataMask(n_post, orig_h, orig_w, post_a, post_b) ==
    LET m0 == FalseMask(orig_h, orig_w)
        m1 == IF n_post >= 1 THEN NodataMask(post_a) ELSE m0
    IN  IF n_post = 2 THEN MaskAnd(m1, NodataMask(post_b)) ELSE m1

\* the channels the loop of lines 218-220 assigns to
PostChannels(cls) == {c \in 1..Len(cls) : cls[c] \in PostClasses}

\* lines 218-220: pred[class_index, nodata_mask] = 0.0 for the flood classes
MaskPostChannels(p, cls, mask) ==
    [c \in 1..Len(p) |->
        IF c \in PostChannels(cls) THEN ZeroPlane(p[c], mask) ELSE p[c]]

\* lines 209-220: flooded pred = 0 on the black pixels of the post images
MaskPost ==
    /\ pc = "mask_post"
    /\ LET nodata_mask ==
               PostNodataMask(n_input_post_images,
                              OrigH(i + 1), OrigW(i + 1),
                              ImagePostA(i + 1, dataloader_idx),
                              ImagePostB(i + 1, dataloader_idx))
           chans == PostChannels(classes)
       IN  IF \E c \in chans :
                  c > Len(pred) \/ ~MaskFits(pred[1], nodata_mask)
           THEN /\ Abort("IndexError: post nodata mask")
                /\ UNCHANGED pred
           ELSE /\ pred' = MaskPostChannels(pred, classes, nodata_mask)
                /\ pc' = "flip"
                /\ UNCHANGED error
    /\ UNCHANGED <<cfgvars, setupvars, batchvars, batch_preds, i, emit_idx,
                   histvars>>

\* mutant of Unflip: the map is left as the model returned it
UnflipNone(p, hflip, vflip) == p

\* lines 222-226: undo the flip of the variant
Unflip(p, hflip, vflip) ==
    LET v == IF vflip THEN VFlip(p) ELSE p
    IN  IF hflip THEN HFlip(v) ELSE v

Flip ==
    /\ pc = "flip"
    /\ pred' = Unflip(pred, flags_hflip[dataloader_idx + 1],
                            flags_vflip[dataloader_idx + 1])
    /\ pc' = "crop"
    /\ UNCHANGED <<cfgvars, error, setupvars, batchvars, batch_preds, i,
                   emit_idx, histvars>>

\* line 228: pred = crop_center(pred, crop_wh=(orig_w, orig_h))
Crop ==
    /\ pc = "crop"
    /\ LET crop_wh == <<OrigW(i + 1), OrigH(i + 1)>>
       IN  IF CropFits(pred, crop_wh)
           THEN /\ pred' = crop_center(pred, crop_wh)
                /\ pc' = "accumulate"
                /\ UNCHANGED error
           ELSE /\ Abort("AssertionError: crop_center")
                /\ UNCHANGED pred
    /\ UNCHANGED <<cfgvars, setupvars, batchvars, batch_preds, i, emit_idx,
                   histvars>>

\* numpy broadcasting of an operand of shape src into a buffer of shape dst
Broadcasts(src, dst) ==
    \A d \in 1..3 : src[d] = dst[d] \/ src[d] = 1

\* index of the operand element that lands on index n of the buffer
Bidx(len, n) == IF len = 1 THEN 1 ELSE n

\* acc += p * wgt
AddWeighted(acc, p, wgt) ==
    [c \in 1..Len(acc) |->
        [y \in 1..Len(acc[c]) |->
            [x \in 1..Len(acc[c][y]) |->
                Add(acc[c][y][x],
                    Mul(p[Bidx(Len(p), c)]
                         [Bidx(Len(p[1]), y)]
                         [Bidx(Len(p[1][1]), x)], wgt))]]]

\* line 231: preds_averaged[i] += pred * weights[dataloader_idx]
Accumulate ==
    /\ pc = "accumulate"
    /\ IF Broadcasts(Shape(pred), Shape(preds_averaged[i + 1]))
       THEN /\ preds_averaged' =
                   [preds_averaged EXCEPT ![i + 1] =
                       AddWeighted(@, pred, weights[dataloader_idx + 1])]
            /\ contrib' =
                   [contrib EXCEPT ![i + 1] =
                       Append(@, [idx |-> dataloader_idx, map |-> pred])]
            /\ pc' = "path"
            /\ UNCHANGED error
       ELSE /\ Abort("ValueError: broadcast")
            /\ UNCHANGED <<preds_averaged, contrib>>
    /\ UNCHANGED <<cfgvars, setupvars, batch_no, output_paths, dataloader_idx,
                   loopvars, writes, n_forward>>

\* mutant of PathAgrees: no comparison
PathAgreesAlways(recorded, derived) == TRUE

\* mutant of LastVariant: the outputs are written after the first variant
LastVariantIsFirst(idx, n_loaders) == idx = 0

\* assert output_paths[i] == output_path
PathAgrees(recorded, derived) == recorded = derived

\* the variant after which the outputs of the batch are written
LastVariant(idx, n_loaders) == idx + 1 = n_loaders

\* lines 233-242: the destination of the sample, then the next sample,
\* the next variant or the output loop
RecordPath ==
    /\ pc = "path"
    /\ LET pre_path == PrePath(i + 1, dataloader_idx)
           output_path == OutputPath(pre_path)
           ok == dataloader_idx = 0
                 \/ PathAgrees(output_paths[i + 1], output_path)
       IN  /\ dirs' = dirs \cup {OutDir(pre_path)}
           /\ output_paths' =
                  IF dataloader_idx = 0
                  THEN [output_paths EXCEPT ![i + 1] = output_path]
                  ELSE output_paths
           /\ IF ~ok
              THEN /\ Abort("AssertionError: output_path")
                   /\ UNCHANGED <<i, dataloader_idx, emit_idx>>
              ELSE /\ UNCHANGED error
                   /\ IF i + 1 < BatchSize
                      THEN /\ i' = i + 1
                           /\ pc' = "mask_pre"
                           /\ UNCHANGED <<dataloader_idx, emit_idx>>
                      ELSE IF ~LastVariant(dataloader_idx, NumLoaders)
                      THEN /\ dataloader_idx' = dataloader_idx + 1
                           /\ pc' = "load"
                           /\ UNCHANGED <<i, emit_idx>>
                      ELSE /\ emit_idx' = 0
                           /\ pc' = "emit"
                           /\ UNCHANGED <<i, dataloader_idx>>
    /\ UNCHANGED <<cfgvars, meta_written, flags_hflip, flags_vflip, weights,
                   batch_no, preds_averaged, batch_preds, pred, histvars>>

\* assert pred.min() >= 0 and pred.max() <= 1 (false when a value is NaN)
InRange(p) ==
    \A c \in 1..Len(p) : \A y \in 1..Len(p[c]) : \A x \in 1..Len(p[c][y]) :
        ~IsNaN(p[c][y][x]) /\ p[c][y][x] >= 0 /\ p[c][y][x] <= One

\* floor(v * 255 / One) = floor(v * 85 / (r * r)) with r = 2^13, divided
\* in two steps to stay within the integers of the checker
ToUint8(v) ==
    LET r == 8192
        t == 85 * (v \div r) + (85 * (v % r)) \div r
    IN  t \div r

\* (pred * 255).astype(np.uint8): truncation
Quantize(p) ==
    [c \in 1..Len(p) |->
        [y \in 1..Len(p[c]) |->
            [x \in 1..Len(p[c][y]) |-> ToUint8(p[c][y][x])]]]

\* lines 244-248: one output of the batch
Emit ==
    /\ pc = "emit"
    /\ LET p == preds_averaged[emit_idx + 1]
           pre_path == PrePath(emit_idx + 1, dataloader_idx)
       IN  IF InRange(p)
           THEN /\ writes' = Append(writes,
                       [batch |-> batch_no,
                        sample |-> emit_idx,
                        array |-> Quantize(p),
                        ref |-> pre_path,
                        path |-> output_paths[emit_idx + 1]])
                /\ IF emit_idx + 1 < BatchSize
                   THEN emit_idx' = emit_idx + 1 /\ pc' = "emit"
                   ELSE emit_idx' = emit_idx /\ pc' = "fetch"
                /\ UNCHANGED error
           ELSE /\ Abort("AssertionError: range")
                /\ UNCHANGED <<writes, emit_idx>>
    /\ UNCHANGED <<cfgvars, setupvars, batchvars, batch_preds, i, pred,
                   contrib, n_forward>>

Next ==
    \/ Setup
    \/ NextBatch
    \/ LoadBatch
    \/ Forward
    \/ MaskPre
    \/ MaskPost
    \/ Flip
    \/ Crop
    \/ Accumulate
    \/ RecordPath
    \/ Emit

(* ------------------------------ inputs -------------------------------- *)

\* a [c, h, w] array holding v everywhere
Uniform(c, h, w, v) == [ci \in 1..c |-> [y \in 1..h |-> [x \in 1..w |-> v]]]

\* a [c, h, w] array holding hot at pixel q = <<y, x>> and v elsewhere
HotAt(c, h, w, q, hot, v) ==
    [ci \in 1..c |->
        [y \in 1..h |-> [x \in 1..w |-> IF <<y, x>> = q THEN hot ELSE v]]]

\* a 3-channel image (raw, non-negative intensities) that is black exactly
\* on the pixels of B; elsewhere channel ch holds ch - 1
ImageBlackOn(h, w, B) ==
    [ch \in 1..3 |->
        [y \in 1..h |-> [x \in 1..w |-> IF <<y, x>> \in B THEN 0 ELSE ch - 1]]]

Pixels(h, w) == (1..h) \X (1..w)

SeqsOf(X, lo, hi) == UNION {[1..n -> X] : n \in lo..hi}

PathA == <<"data", "AOI1", "PRE", "a.tif">>
PathB == <<"data", "AOI1", "PRE", "b.tif">>
\* same AOI and file name as PathA under another root
PathAMirror == <<"mirror", "AOI1", "PRE", "a.tif">>
\* same AOI and file name as PathA in another directory of the AOI
PathAPost == <<"data", "AOI1", "POST", "a.tif">>

\* a sample as the three dataloaders and the model see it: its pre-image
\* path per dataloader, original size, images in canonical orientation,
\* and the raw model output for the input of each dataloader
MkSample(paths, oh, ow, img, pa, pb, lg) ==
    [pre_paths |-> paths, orig_h |-> oh, orig_w |-> ow,
     image |-> img, post_a |-> pa, post_b |-> pb, logits |-> lg]

\* the plain sample: no padding, no black pixel, model output 0 everywhere
PlainSample(n_out) ==
    MkSample(<<PathA, PathA, PathA>>, OutSize, OutSize,
             ImageBlackOn(OutSize, OutSize, {}),
             ImageBlackOn(OutSize, OutSize, {}),
             ImageBlackOn(OutSize, OutSize, {}),
             [k \in 1..3 |-> Uniform(n_out, OutSize, OutSize, "zero")])

MkRun(h, v, n_post, cls, ds) ==
    [hflip |-> h, vflip |-> v, n_post |-> n_post, classes |-> cls,
     dataset |-> ds]

BaseClasses == <<"building", "road">>

\* samples that differ in their paths: aligned dataloaders on four paths,
\* and a second or third dataloader that yields another path
PathSamples ==
    {[PlainSample(2) EXCEPT !.pre_paths = ps] :
        ps \in {<<PathA, PathA, PathA>>, <<PathB, PathB, PathB>>,
                <<PathAMirror, PathAMirror, PathAMirror>>,
                <<PathAPost, PathAPost, PathAPost>>,
                <<PathA, PathB, PathA>>, <<PathA, PathA, PathB>>,
                <<PathA, PathAMirror, PathA>>}}

\* samples that differ in their original size, in a batch padded to
\* OutSize + 1
ShapeSamples ==
    {[PlainSample(2) EXCEPT
         !.orig_h = wh[2], !.orig_w = wh[1],
         !.image = ImageBlackOn(OutSize + 1, OutSize + 1, {}),
         !.logits = [k \in 1..3 |->
                        Uniform(2, OutSize + 1, OutSize + 1, "zero")]] :
        wh \in {<<OutSize, OutSize>>, <<1, OutSize>>, <<OutSize, 1>>,
                <<1, 1>>, <<OutSize + 1, OutSize>>,
                <<OutSize, OutSize + 2>>, <<OutSize - 1, OutSize>>}}

\* samples that differ in the model output of each dataloader
ValueSamples ==
    {[PlainSample(2) EXCEPT
         !.logits = [k \in 1..3 |->
                        Uniform(2, OutSize, OutSize, ls[k])]] :
        ls \in [1..3 -> Logits]}

ClassLists ==
    {<<"building">>, <<"building", "road">>, <<"building", "flood">>,
     <<"flood", "building", "road">>}

\* runs that differ in the paths of their samples, in one batch or over
\* several batches of one sample, with one variant or with all three
PathRuns ==
    {MkRun(hv, hv, 0, BaseClasses, ds) :
        hv \in BOOLEAN,
        ds \in {<<b>> : b \in SeqsOf(PathSamples, 1, MaxBatchSize)}
               \cup SeqsOf({<<sm>> : sm \in PathSamples}, 0, MaxBatches)}

ShapeRuns ==
    {MkRun(h, v, 0, BaseClasses, <<b>>) :
        h \in BOOLEAN, v \in BOOLEAN,
        b \in SeqsOf(ShapeSamples, 1, MaxBatchSize)}

\* the sample whose model output is 1.0 everywhere, for every dataloader
OnesSample ==
    [PlainSample(2) EXCEPT
        !.pre_paths = <<PathB, PathB, PathB>>,
        !.logits = [k \in 1..3 |-> Uniform(2, OutSize, OutSize, "pinf")]]

ValueRuns ==
    {MkRun(h, v, 0, BaseClasses, <<b>>) :
        h \in BOOLEAN, v \in BOOLEAN,
        b \in {<<sm>> : sm \in ValueSamples}
              \cup {<<OnesSample, sm>> : sm \in ValueSamples}}

\* runs that differ in the configuration: post-image count, class schema,
\* channel count of the model output, number of batches
ConfigRuns ==
    {MkRun(h, v, n_post, cls, [b \in 1..nb |-> <<PlainSample(n_out)>>]) :
        h \in BOOLEAN, v \in BOOLEAN, n_post \in -1..3, cls \in ClassLists,
        n_out \in 1..3, nb \in 0..MaxBatches}

Runs == PathRuns \cup ShapeRuns \cup ValueRuns \cup ConfigRuns

InitRun(r) ==
    /\ numpy_promotion \in NumpyPromotions
    /\ tta_hflip = r.hflip
    /\ tta_vflip = r.vflip
    /\ n_input_post_images = r.n_post
    /\ classes = r.classes
    /\ dataset = r.dataset
    /\ pc = "start"
    /\ error = ""
    /\ dirs = {}
    /\ meta_written = FALSE
    /\ flags_hflip = <<>>
    /\ flags_vflip = <<>>
    /\ weights = <<>>
    /\ batch_no = 0
    /\ output_paths = <<>>
    /\ preds_averaged = <<>>
    /\ dataloader_idx = 0
    /\ batch_preds = <<>>
    /\ i = 0
    /\ pred = <<>>
    /\ emit_idx = 0
    /\ contrib = <<>>
    /\ writes = <<>>
    /\ n_forward = 0

Init == \E r \in Runs : InitRun(r)

Spec == Init /\ [][Next]_vars

(* ----------------------- pixel-level inputs --------------------------- *)

PadH == OutSize + 1
PadW == OutSize + 2

\* an image without black pixel, with the one black pixel q, or all black
ProbeImages(h, w, q) ==
    {ImageBlackOn(h, w, {}), ImageBlackOn(h, w, {q}),
     ImageBlackOn(h, w, Pixels(h, w))}

MaskConfigs ==
    {<<0, BaseClasses>>, <<0, <<"building", "flood">> >>,
     <<1, <<"building", "flood">> >>,
     <<2, <<"flood_road", "road">> >>}

MaskRun(h, v, cfg, img, pa, pb) ==
    MkRun(h, v, cfg[1], cfg[2],
          <<(<<MkSample(<<PathA, PathA, PathA>>, OutSize, OutSize,
                        img, pa, pb,
                        [k \in 1..3 |->
                            Uniform(Len(cfg[2]), PadH, PadW, "zero")])>>)>>)

\* runs of one sample padded to PadH x PadW whose pre-image and configured
\* post images are black on a probe pixel (or not), the model output being
\* 0.5 everywhere
MaskRuns ==
    UNION {{MaskRun(h, v, cfg, img, pa, pb) :
                h \in BOOLEAN, v \in BOOLEAN,
                img \in {ImageBlackOn(PadH, PadW, {}),
                         ImageBlackOn(PadH, PadW, {q})},
                pa \in IF cfg[1] >= 1 THEN ProbeImages(PadH, PadW, q)
                       ELSE {ImageBlackOn(PadH, PadW, {})},
                pb \in IF cfg[1] >= 2 THEN ProbeImages(PadH, PadW, q)
                       ELSE {ImageBlackOn(PadH, PadW, {})}} :
           cfg \in MaskConfigs, q \in Pixels(PadH, PadW)}

CropRun(h, v, hw, q, wh) ==
    MkRun(h, v, 0, BaseClasses,
          <<(<<MkSample(<<PathA, PathA, PathA>>, wh[2], wh[1],
                        ImageBlackOn(hw[1], hw[2], {}),
                        ImageBlackOn(hw[1], hw[2], {}),
                        ImageBlackOn(hw[1], hw[2], {}),
                        [k \in 1..3 |->
                            HotAt(2, hw[1], hw[2], q, "pinf", "zero")])>>)>>)

\* runs of one sample of every original size up to one more than the padded
\* size, the model output being 1.0 on one pixel and 0.5 elsewhere
CropRuns ==
    {CropRun(hv, hv, <<PadH, PadW>>, q, wh) :
        hv \in BOOLEAN,
        q \in Pixels(PadH, PadW),
        wh \in (1..(PadW + 1)) \X (1..(PadH + 1))}

InitPix == \E r \in MaskRuns \cup CropRuns : InitRun(r)

SpecPix == InitPix /\ [][Next]_vars

(* ============================== claims ================================ *)

\* the pixel <<y, x>> of a [3, H, W] image is zero in all channels
AllZeroAt(img, y, x) == \A ch \in 1..Len(img) : img[ch][y][x] = 0

\* the sample of the current batch at 0-based index j
SampleAt(j) == CurBatch[j + 1]

(* ------------------------------- C5 ----------------------------------- *)

\* C5: whenever crop_center is called on a map of size (H, W) with a target
\* (crop_w, crop_h) with crop_w <= W and crop_h <= H, it succeeds and the
\* returned map keeps every channel, has height crop_h and width crop_w, and
\* its pixel (y, x) is the pixel (y + (H - crop_h) \div 2,
\* x + (W - crop_w) \div 2) of the map it was given.
C5_CropCenter ==
    [][(pc = "crop"
        /\ OrigW(i + 1) <= Len(pred[1][1])
        /\ OrigH(i + 1) <= Len(pred[1]))
       => LET hh == Len(pred[1])
              ww == Len(pred[1][1])
              cw == OrigW(i + 1)
              ch == OrigH(i + 1)
          IN  /\ pc' = "accumulate"
              /\ Len(pred') = Len(pred)
              /\ \A c \in 1..Len(pred) :
                    /\ Len(pred'[c]) = ch
                    /\ \A y \in 1..ch :
                          /\ Len(pred'[c][y]) = cw
                          /\ \A x \in 1..cw :
                                pred'[c][y][x] =
                                    pred[c][y + ((hh - ch) \div 2)]
                                           [x + ((ww - cw) \div 2)]]_vars

\* C5 witness: a map has been cropped by a margin of three columns (one
\* removed on the left) and one row, and the cropped map holds the pixel on
\* which the model output is 1.0
C5_Witness ==
    /\ pc = "accumulate"
    /\ Len(CurBatch[i + 1].image[1][1]) - Len(pred[1][1]) = 3
    /\ Len(CurBatch[i + 1].image[1]) - Len(pred[1]) = 1
    /\ \E y \in 1..Len(pred[1]) : \E x \in 1..Len(pred[1][1]) :
          pred[1][y][x] = One

(* ------------------------------- C3 ----------------------------------- *)

\* the pixel of the canonical (unflipped) padded pre-image of sample sm that
\* the pixel <<y, x>> of its cropped grid corresponds to is zero in all
\* channels
PreBlackAt(sm, y, x) ==
    AllZeroAt(sm.image,
              y + ((Len(sm.image[1]) - sm.orig_h) \div 2),
              x + ((Len(sm.image[1][1]) - sm.orig_w) \div 2))

\* C3: where the pre-image of a sample is zero in all channels, every class
\* channel is zero at the corresponding pixel of the cropped grid in the
\* rectified map of every variant (the one about to be added and the ones
\* added before) and, once all variants are added, in the accumulated map
\* and in the array written for the sample.
C3_PreNodataZero ==
    /\ pc = "accumulate"
       => \A c \in 1..Len(pred) : \A y \in 1..Len(pred[1]) :
             \A x \in 1..Len(pred[1][1]) :
                PreBlackAt(SampleAt(i), y, x) => pred[c][y][x] = 0
    /\ \A j \in 1..Len(contrib) : \A n \in 1..Len(contrib[j]) :
          LET m == contrib[j][n].map
          IN  \A c \in 1..Len(m) : \A y \in 1..Len(m[1]) :
                 \A x \in 1..Len(m[1][1]) :
                    PreBlackAt(CurBatch[j], y, x) => m[c][y][x] = 0
    /\ pc = "emit"
       => \A j \in 1..BatchSize :
             (CurBatch[j].orig_h = OutSize /\ CurBatch[j].orig_w = OutSize)
             => \A c \in 1..Len(classes) : \A y \in 1..OutSize :
                   \A x \in 1..OutSize :
                      PreBlackAt(CurBatch[j], y, x)
                      => preds_averaged[j][c][y][x] = 0
    /\ \A n \in 1..Len(writes) :
          LET sm == dataset[writes[n].batch][writes[n].sample + 1]
          IN  (sm.orig_h = OutSize /\ sm.orig_w = OutSize)
              => \A c \in 1..Len(classes) : \A y \in 1..OutSize :
                    \A x \in 1..OutSize :
                       PreBlackAt(sm, y, x) => writes[n].array[c][y][x] = 0

\* C3 witness: with the three variants active, a sample whose pre-image is
\* black on exactly one pixel of the cropped grid, not on its mirror images,
\* has been written, with the other pixels nonzero
C3_Witness ==
    /\ NumLoaders = 3
    /\ Len(writes) = 1
    /\ LET sm == dataset[1][1]
           a == writes[1].array
       IN  /\ PreBlackAt(sm, 1, 1)
           /\ a[1][1][1] = 0
           /\ a[1][1][OutSize] = 127
           /\ a[1][OutSize][1] = 127

(* ------------------------------- C4 ----------------------------------- *)

\* the pixel <<y, x>> of the post images the current dataloader yields for
\* the current sample is all-zero in every configured post image
PostBlackAt(y, x) ==
    /\ AllZeroAt(ImagePostA(i + 1, dataloader_idx), y, x)
    /\ n_input_post_images = 2
       => AllZeroAt(ImagePostB(i + 1, dataloader_idx), y, x)

\* C4: with one or two post images configured, the post-conditioned masking
\* step sets a channel to zero at a pixel exactly when its class name is
\* flood_building, flood_road or flood and every configured post image is
\* all-zero at that pixel; every other value of the map is left as it was.
C4_PostMask ==
    [][(pc = "mask_post" /\ pc' = "flip" /\ n_input_post_images \in {1, 2})
       => /\ Shape(pred') = Shape(pred)
          /\ \A c \in 1..Len(pred) : \A y \in 1..Len(pred[1]) :
                \A x \in 1..Len(pred[1][1]) :
                   pred'[c][y][x] =
                       IF /\ c <= Len(classes)
                          /\ classes[c] \in
                                 {"flood_building", "flood_road", "flood"}
                          /\ PostBlackAt(y, x)
                       THEN 0
                       ELSE pred[c][y][x]]_vars

\* C4 witness: two post images are configured, the first is all-zero on a
\* pixel where the second is not, and after the step the flood channel still
\* holds the model's value there
C4_Witness ==
    /\ pc = "flip"
    /\ n_input_post_images = 2
    /\ \E c \in 1..Len(classes) : \E y \in 1..Len(pred[1]) :
          \E x \in 1..Len(pred[1][1]) :
             /\ classes[c] \in PostClasses
             /\ AllZeroAt(ImagePostA(i + 1, dataloader_idx), y, x)
             /\ ~AllZeroAt(ImagePostB(i + 1, dataloader_idx), y, x)
             /\ pred[c][y][x] = One \div 2

(* ------------------------------- C1 ----------------------------------- *)

\* the dataloader indices that have added to the sample at 1-based index j
ContribIdx(j) == [n \in 1..Len(contrib[j]) |-> contrib[j][n].idx]

\* the indices 0 .. n - 1 in order
FirstIdx(n) == [k \in 1..n |-> k - 1]

PathMismatchAbort ==
    pc = "aborted" /\ error = "AssertionError: output_path"

\* the batch taken last has no output written
NoWriteOfBatch ==
    \A n \in 1..Len(writes) : writes[n].batch # batch_no

\* C1 (as claimed): when the run aborts on a path mismatch of a non-first
\* variant for sample i, the accumulator of sample i holds only the
\* contributions of the earlier variants.
C1_CheckBeforeAdd ==
    PathMismatchAbort
    => \A n \in 1..Len(contrib[i + 1]) :
          contrib[i + 1][n].idx < dataloader_idx

\* C1 (amended): the path check of a non-first variant comes after that
\* variant's weighted map is added: when the run aborts on a mismatch for
\* sample i, the derived path differs from the one the first variant
\* recorded, the accumulator of sample i holds the contributions of the
\* earlier variants and of the mismatching variant, and no output of the
\* batch is written; and the outputs of a batch are reached only when every
\* variant derived the recorded path for every sample.
C1_CheckAfterAdd ==
    /\ PathMismatchAbort
       => /\ dataloader_idx > 0
          /\ OutputPath(PrePath(i + 1, dataloader_idx)) # output_paths[i + 1]
          /\ ContribIdx(i + 1) = FirstIdx(dataloader_idx + 1)
          /\ NoWriteOfBatch
    /\ pc = "emit"
       => \A j \in 1..BatchSize : \A k \in 0..(NumLoaders - 1) :
             OutputPath(PrePath(j, k)) = output_paths[j]

\* C1 witness: the third variant's path differs for the second sample of a
\* batch, and the run has aborted with the three contributions added
C1_Witness ==
    /\ PathMismatchAbort
    /\ dataloader_idx = 2
    /\ i = 1
    /\ Len(contrib[i + 1]) = 3

(* ------------------------------- C2 ----------------------------------- *)

VariantPcs ==
    {"load", "forward", "mask_pre", "mask_post", "flip", "crop",
     "accumulate", "path"}

\* C2: the raster-writer is called for a sample of a batch only when every
\* active variant has added its contribution to every sample of the batch,
\* and a run that aborts while a variant of a batch is processed has
\* written no output of that batch.
C2_WriteAfterAllVariants ==
    [][/\ writes' # writes
          => /\ pc = "emit"
             /\ \A j \in 1..BatchSize : ContribIdx(j) = FirstIdx(NumLoaders)
       /\ (pc \in VariantPcs /\ pc' = "aborted")
          => \A n \in 1..Len(writes') : writes'[n].batch # batch_no]_vars

\* C2 witness: with three variants, the first batch has been written and
\* the run has aborted in the third variant of the second batch
C2_Witness ==
    /\ pc = "aborted"
    /\ error # "AssertionError: range"
    /\ NumLoaders = 3
    /\ batch_no = 2
    /\ dataloader_idx = 2
    /\ Len(writes) = 1

(* ------------------------------- C6 ----------------------------------- *)

NumVariants ==
    1 + (IF tta_hflip THEN 1 ELSE 0) + (IF tta_vflip THEN 1 ELSE 0)

\* the value is a number of [0, 1]
Within01(v) == v \in 0..One

\* the value of map m that is added to the pixel <<c, y, x>> of the buffer
AddedAt(m, c, y, x) ==
    m[Bidx(Len(m), c)][Bidx(Len(m[1]), y)][Bidx(Len(m[1][1]), x)]

RangeAbort == pc = "aborted" /\ error = "AssertionError: range"

\* C6 (as claimed): for every combination of the flags the weight of each
\* of the N active variants is 1/N and the weights sum to 1; where every
\* rectified value added to a pixel lies in [0, 1], the accumulated value
\* lies in [0, 1]; every sample written had all its accumulated values in
\* [0, 1] (the written bytes are in 0..255), and the run aborts on a sample
\* with an accumulated value outside [0, 1] without writing it.
C6_WeightsAndBounds ==
    /\ pc # "start"
       => /\ Len(weights) = NumVariants
          /\ \A k \in 1..Len(weights) :
                weights[k][1] * NumVariants = weights[k][2]
          /\ SumSeq([k \in 1..Len(weights) |-> Times(One, weights[k])]) = One
    /\ \A j \in 1..Len(contrib) :
          \A c \in 1..Len(classes) : \A y \in 1..OutSize : \A x \in 1..OutSize :
             (\A n \in 1..Len(contrib[j]) :
                 Within01(AddedAt(contrib[j][n].map, c, y, x)))
             => Within01(preds_averaged[j][c][y][x])
    /\ \A n \in 1..Len(writes) :
          \A c \in 1..Len(classes) : \A y \in 1..OutSize : \A x \in 1..OutSize :
             writes[n].array[c][y][x] \in 0..255
    /\ pc = "emit"
       => \A j \in 1..emit_idx :
             \A c \in 1..Len(classes) : \A y \in 1..OutSize :
                \A x \in 1..OutSize : Within01(preds_averaged[j][c][y][x])
    /\ RangeAbort
       => /\ \E c \in 1..Len(classes) : \E y \in 1..OutSize :
                \E x \in 1..OutSize :
                   ~Within01(preds_averaged[emit_idx + 1][c][y][x])
          /\ \A n \in 1..Len(writes) :
                ~(writes[n].batch = batch_no /\ writes[n].sample = emit_idx)

\* C6 witness: with three variants, every variant has added a map whose
\* values all lie in [0, 1], 1.0 among them, and the run has aborted on the
\* range check of that sample with nothing written
C6_Witness ==
    /\ RangeAbort
    /\ NumLoaders = 3
    /\ writes = <<>>
    /\ Len(contrib[emit_idx + 1]) = 3
    /\ \A n \in 1..3 :
          \A c \in 1..Len(classes) : \A y \in 1..OutSize : \A x \in 1..OutSize :
             /\ Within01(AddedAt(contrib[emit_idx + 1][n].map, c, y, x))
             /\ AddedAt(contrib[emit_idx + 1][n].map, 1, 1, 1) = One

(* ------------------------------- C7 ----------------------------------- *)

\* the channel count of the model output for a sample
ModelChannels(sm) == Len(sm.logits[1])

\* C7 (as claimed): no output is written for a batch in which the model's
\* output channel count differs from the number of flattened class names.
C7_ChannelMismatchRejected ==
    \A n \in 1..Len(writes) :
        ModelChannels(dataset[writes[n].batch][writes[n].sample + 1])
            = Len(classes)

(* ------------------------------- C8 ----------------------------------- *)

InvalidPostCount == n_input_post_images \notin {0, 1, 2}

\* C8 (as claimed): a run whose post-image count is outside {0, 1, 2}
\* aborts, also when its dataloaders yield no batch: it never completes.
C8_InvalidCountNeverCompletes ==
    InvalidPostCount => pc # "done"

\* C8 (amended): a post-image count outside {0, 1, 2} aborts the run when
\* the first variant of the first batch is loaded, before any forward pass,
\* any update of an accumulator and any call of the raster-writer (meta.json
\* is written before); a run whose dataloaders yield no batch never checks
\* the count and completes.
C8_InvalidCountAbortsFirstBatch ==
    InvalidPostCount
    => /\ n_forward = 0
       /\ writes = <<>>
       /\ \A j \in 1..Len(preds_averaged) :
             preds_averaged[j] = Zeros(Len(classes), OutSize, OutSize)
       /\ \A j \in 1..Len(contrib) : contrib[j] = <<>>
       /\ pc \in {"start", "fetch", "load", "aborted", "done"}
       /\ pc = "done" <=> (batch_no = 0 /\ Len(dataset) = 0 /\ meta_written
                           /\ pc \notin {"start", "fetch"})
       /\ pc = "aborted"
          => /\ error = "AssertionError: n_input_post_images"
             /\ batch_no = 1
             /\ dataloader_idx = 0
             /\ meta_written

\* C8 witness: a run with an invalid count has aborted in its first batch
C8_Witness ==
    /\ InvalidPostCount
    /\ pc = "aborted"
    /\ Len(dataset) = MaxBatches
    /\ n_forward = 0

(* ------------------------------- C9 ----------------------------------- *)

\* C9 (as claimed): over a run the raster-writer is called at most once per
\* destination path.
C9_OneWritePerPath ==
    \A m \in 1..Len(writes) : \A n \in 1..Len(writes) :
        m # n => writes[m].path # writes[n].path

(* ------------------------------- C10 ---------------------------------- *)

\* C10: every array handed to the raster-writer has shape
\* [C, OutSize, OutSize], whatever the original size of the sample; a
\* sample is written only when its original height and width are each
\* OutSize or 1 and the model's channel count is C or 1, that is when its
\* cropped map can be added to the buffer.
C10_WrittenShape ==
    \A n \in 1..Len(writes) :
        LET sm == dataset[writes[n].batch][writes[n].sample + 1]
            a == writes[n].array
        IN  /\ Len(a) = Len(classes)
            /\ \A c \in 1..Len(a) :
                  /\ Len(a[c]) = OutSize
                  /\ \A y \in 1..Len(a[c]) : Len(a[c][y]) = OutSize
            /\ sm.orig_h \in {1, OutSize}
            /\ sm.orig_w \in {1, OutSize}
            /\ ModelChannels(sm) \in {1, Len(classes)}

\* C10 witness: a sample whose original size is 1 x OutSize has been written
C10_Witness ==
    \E n \in 1..Len(writes) :
        LET sm == dataset[writes[n].batch][writes[n].sample + 1]
        IN  /\ sm.orig_h = 1
            /\ sm.orig_w = OutSize
            /\ Len(writes[n].array[1]) = OutSize

====
